---- MODULE Spec2Model ----
(***************************************************************************)
(* CSORCA (constant speed optimal reciprocal collision avoidance):         *)
(* the conflict detector, the exhaust vector, the semi-plan constraints    *)
(* and the step loop of csorca.py.                                         *)
(*                                                                         *)
(* Numbers.  The program computes in floating point.  The model computes   *)
(* in exact rational arithmetic, a number being a record [n, d] in lowest  *)
(* terms with d > 0, and NaN being 0/0.  Arithmetic on NaN gives NaN and   *)
(* every comparison with NaN is false, as in numpy.  A square root is      *)
(* taken only of the square of a rational; the traffic the model           *)
(* enumerates keeps every norm the code takes rational.                    *)
(***************************************************************************)
EXTENDS Integers, Sequences, FiniteSets, TLC

VARIABLES aircraft, d, tau, time, step, alerts, separation_losses,
          pc, i, j, done, ret, pre, scanned, assigned, appended,
          conflict, initial

vars == <<aircraft, d, tau, time, step, alerts, separation_losses,
          pc, i, j, done, ret, pre, scanned, assigned, appended,
          conflict, initial>>

----------------------------------------------------------------------------
(* Bounds of the model *)

MaxSteps == 3
MaxSpeed == 2
MaxCoord == 12
MaxSep == 3
MaxTau == 3

(* Program constants *)

time_step == 3
epsilon == 3

----------------------------------------------------------------------------
(* Rational numbers with NaN *)

Abs(x) == IF x < 0 THEN -x ELSE x

RECURSIVE Gcd(_, _)
Gcd(a, b) == IF b = 0 THEN a ELSE Gcd(b, a % b)

NaN == [n |-> 0, d |-> 0]

IsNaN(x) == x.d = 0

Frac(n, m) ==
    IF m = 0 THEN NaN
    ELSE LET g == Gcd(Abs(n), Abs(m))
             s == IF m < 0 THEN -1 ELSE 1
         IN  [n |-> s * (n \div g), d |-> s * (m \div g)]

R(k) == [n |-> k, d |-> 1]

\* the operations reduce by common divisors before they multiply
RAdd(x, y) == IF IsNaN(x) \/ IsNaN(y) THEN NaN
              ELSE LET g == Gcd(x.d, y.d)
                   IN  Frac(x.n * (y.d \div g) + y.n * (x.d \div g),
                            (x.d \div g) * y.d)

RNeg(x) == IF IsNaN(x) THEN NaN ELSE [n |-> -x.n, d |-> x.d]

RSub(x, y) == RAdd(x, RNeg(y))

RMul(x, y) == IF IsNaN(x) \/ IsNaN(y) THEN NaN
              ELSE LET g1 == Gcd(Abs(x.n), y.d)
                       g2 == Gcd(Abs(y.n), x.d)
                   IN  Frac((x.n \div g1) * (y.n \div g2),
                            (x.d \div g2) * (y.d \div g1))

\* x / y; the only division by zero the modelled code performs is 0/0
RDiv(x, y) == IF IsNaN(x) \/ IsNaN(y) \/ y.n = 0 THEN NaN
              ELSE RMul(x, [n |-> IF y.n < 0 THEN -y.d ELSE y.d, d |-> Abs(y.n)])

RLe(x, y) == /\ ~IsNaN(x)
             /\ ~IsNaN(y)
             /\ LET g == Gcd(x.d, y.d)
                IN  x.n * (y.d \div g) <= y.n * (x.d \div g)

RLt(x, y) == /\ ~IsNaN(x)
             /\ ~IsNaN(y)
             /\ LET g == Gcd(x.d, y.d)
                IN  x.n * (y.d \div g) < y.n * (x.d \div g)

RGe(x, y) == RLe(y, x)

RGt(x, y) == RLt(y, x)

ISqrt(k) == CHOOSE r \in 0..k : r * r = k

\* square root of the square of a rational
RSqrt(x) == IF IsNaN(x) THEN NaN ELSE Frac(ISqrt(x.n), ISqrt(x.d))

IsSquare(k) == \E r \in 0..k : r * r = k

----------------------------------------------------------------------------
(* 2-vectors (numpy arrays of shape (2,)) *)

Vec(x, y) == <<R(x), R(y)>>

NaNVec == <<NaN, NaN>>

VAdd(u, v) == <<RAdd(u[1], v[1]), RAdd(u[2], v[2])>>

VSub(u, v) == <<RSub(u[1], v[1]), RSub(u[2], v[2])>>

VNeg(u) == <<RNeg(u[1]), RNeg(u[2])>>

VScale(s, u) == <<RMul(s, u[1]), RMul(s, u[2])>>

VDiv(u, s) == <<RDiv(u[1], s), RDiv(u[2], s)>>

Dot(u, v) == RAdd(RMul(u[1], v[1]), RMul(u[2], v[2]))

\* np.linalg.det(np.array((u, v)))
det(u, v) == RSub(RMul(u[1], v[2]), RMul(u[2], v[1]))

\* np.linalg.norm(u)**2 and np.sum(u**2)
normsq(u) == Dot(u, u)

\* np.linalg.norm(u)
norm(u) == RSqrt(normsq(u))

\* m.dot(u) for a 2x2 matrix given by its rows
MatVec(m, u) == <<Dot(m[1], u), Dot(m[2], u)>>

VIsNaN(u) == IsNaN(u[1]) \/ IsNaN(u[2])

----------------------------------------------------------------------------
(* Some useful functions *)

is_inside_the_cone(point, pointA, pointB, v1, v2) ==
    LET a_b == VSub(pointB, pointA)
        a_point == VSub(point, pointA)
        t1 == RMul(det(a_point, v1), det(a_b, v1))
        t2 == RMul(det(a_point, v2), det(a_b, v2))
    IN  RGe(t1, R(0)) /\ RGe(t2, R(0))

is_inside_the_circle(point, center, radius) ==
    RLe(normsq(VSub(center, point)), RMul(radius, radius))

----------------------------------------------------------------------------
(* Aircraft *)

\* Aircraft.__init__
Aircraft(position, heading, destination) ==
    [position |-> position, trajectory |-> <<position>>,
     heading |-> heading, destination |-> destination, semi_plan |-> <<>>]

\* the forbidden zone test with the second disk test not negated
forbidden_zone_SecondDiskNotNegated(self, other, a_b, vr, a_t1, a_t2, d_, tau_) ==
    /\ is_inside_the_cone(VAdd(self.position, vr), self.position,
                          other.position, a_t1, a_t2)
    /\ \/ is_inside_the_circle(vr, VDiv(a_b, tau_), RDiv(d_, tau_))
       \/ is_inside_the_circle(vr, Vec(0, 0), RDiv(a_b[1], tau_))

\* "Check if relative speed lies in forbiden zone": point = self.position + vr,
\* conflict = cone * (circle or not circle)
forbidden_zone(self, other, a_b, vr, a_t1, a_t2, d_, tau_) ==
    /\ is_inside_the_cone(VAdd(self.position, vr), self.position,
                          other.position, a_t1, a_t2)
    /\ \/ is_inside_the_circle(vr, VDiv(a_b, tau_), RDiv(d_, tau_))
       \/ ~is_inside_the_circle(vr, Vec(0, 0), RDiv(a_b[1], tau_))

\* the tangent orientation vectors a_t1 = r1.dot(a_b), a_t2 = r2.dot(a_b).
\* theta = arctan(d/ro) has cos(theta) = ro/hyp and sin(theta) = d/hyp with
\* hyp = sqrt(ro^2 + d^2) > 0.  The rotation matrices r1, r2 are carried
\* multiplied by hyp, so a_t1 and a_t2 are the code's tangent vectors times
\* hyp: is_inside_the_cone depends on the sign of products in which each
\* tangent occurs twice, and exhaust_vector projects on the tangent lines,
\* so neither depends on a positive factor of a tangent.
tangents(a_b, ro, d_) ==
    <<MatVec(<< <<ro, RNeg(d_)>>, <<d_, ro>> >>, a_b),
      MatVec(<< <<ro, d_>>, <<RNeg(d_), ro>> >>, a_b)>>

\* the rest of detect_conflict once a_b, vr and the tangents are computed
detect_conflict_on(self, other, a_b, vr, a_t, d_, tau_) ==
    [conflict |-> forbidden_zone(self, other, a_b, vr, a_t[1], a_t[2], d_, tau_),
     geom |-> <<vr, a_t[1], a_t[2]>>]

\* a_b = other.position - self.position, ro = norm(a_b),
\* vr = self.heading - other.heading
detect_conflict_from(self, other, a_b, d_, tau_) ==
    detect_conflict_on(self, other, a_b, VSub(self.heading, other.heading),
                       tangents(a_b, norm(a_b), d_), d_, tau_)

detect_conflict(self, other, d_, tau_) ==
    detect_conflict_from(self, other, VSub(other.position, self.position), d_, tau_)

\* c1*(norm(c1) <= norm(c2)) + c2*(norm(c1) > norm(c2)); the norms are
\* compared on their squares
smaller_of(c1, c2) ==
    VAdd(VScale(R(IF RLe(normsq(c1), normsq(c2)) THEN 1 ELSE 0), c1),
         VScale(R(IF RGt(normsq(c1), normsq(c2)) THEN 1 ELSE 0), c2))

\* u = (a_t.dot(vr)/np.linalg.norm(a_t)**2)*a_t, c = u - vr
correction(vr, a_t) ==
    VSub(VScale(RDiv(Dot(a_t, vr), normsq(a_t)), a_t), vr)

exhaust_vector(vr, a_t1, a_t2) ==
    smaller_of(correction(vr, a_t1), correction(vr, a_t2))

\* the constraints with the threshold of other taken on its own coefficient
\* vector: (-c).dot(other.heading - c/2)
semi_plans_OwnCoefficient(self, other, c) ==
    << << <<c, Dot(c, VNeg(VAdd(self.heading, VDiv(c, R(2)))))>> >>,
       << <<VNeg(c), Dot(VNeg(c), VSub(other.heading, VDiv(c, R(2))))>> >> >>

\* [p_ij] and [p_ji]; a constraint [c[0], c[1], threshold] is
\* <<coefficient vector, threshold>>
semi_plans(self, other, c) ==
    << << <<c, Dot(c, VNeg(VAdd(self.heading, VDiv(c, R(2)))))>> >>,
       << <<VNeg(c), Dot(c, VSub(other.heading, VDiv(c, R(2))))>> >> >>

\* the body of compute_semi_plan once detect_conflict has returned
compute_semi_plan_on(self, other, dc) ==
    IF dc.conflict
    THEN semi_plans(self, other, exhaust_vector(dc.geom[1], dc.geom[2], dc.geom[3]))
    ELSE << <<>>, <<>> >>

\* the two lists the generator yields, for self and for other
compute_semi_plan(self, other, d_, tau_) ==
    compute_semi_plan_on(self, other, detect_conflict(self, other, d_, tau_))

reached_destination(self, eps) ==
    RLe(norm(VSub(self.destination, self.position)), R(eps))

\* scipy.optimize.minimize(obj, x0 = self.heading, method = 'trust-constr')
\* is a library outside the program and its res.x is returned whatever the
\* solver's status.  Its result is any of: the initial guess x0, the
\* opposite heading of the same speed, and NaN when the objective is NaN
\* (h_star = (norm(heading)/0) * 0 for an aircraft on its destination).
minimize(self) ==
    {self.heading, VNeg(self.heading)}
      \cup (IF VIsNaN(self.heading) \/ self.destination = self.position
            THEN {NaNVec} ELSE {})

\* compute_heading with the heading of free flight scaled to the speed
compute_heading_ScaledToSpeed(self) ==
    IF self.semi_plan = <<>>
    THEN LET to_dest == VSub(self.destination, self.position)
         IN  {VScale(RDiv(norm(self.heading), norm(to_dest)), to_dest)}
    ELSE minimize(self)

\* the set of headings compute_heading can return
compute_heading(self) ==
    IF self.semi_plan = <<>>
    THEN LET to_dest == VSub(self.destination, self.position)
         IN  {VDiv(to_dest, norm(to_dest))}
    ELSE minimize(self)

\* Aircraft.move
Aircraft_move(self, ts) ==
    [self EXCEPT !.position = VAdd(self.position, VScale(R(ts), self.heading))]

----------------------------------------------------------------------------
(* Simulation *)

N == Len(aircraft)

Agents == 1..N

\* the pairs of the loops "for i in range(N): for j in range(i+1, N)";
\* the model counts aircraft from 1
Pairs == {p \in Agents \X Agents : p[1] < p[2]}

\* Simulation.move with the append inside the test
Simulation_move_AppendsWhenMoved(acs) ==
    [k \in 1..Len(acs) |->
        IF ~reached_destination(acs[k], epsilon)
        THEN LET a == Aircraft_move(acs[k], time_step)
             IN  [a EXCEPT !.trajectory = Append(@, a.position)]
        ELSE acs[k]]

\* Simulation.move without the test
Simulation_move_MovesArrived(acs) ==
    [k \in 1..Len(acs) |->
        LET a == Aircraft_move(acs[k], time_step)
        IN  [a EXCEPT !.trajectory = Append(@, a.position)]]

\* Simulation.move
Simulation_move(acs) ==
    [k \in 1..Len(acs) |->
        LET a == IF ~reached_destination(acs[k], epsilon)
                 THEN Aircraft_move(acs[k], time_step)
                 ELSE acs[k]
        IN  [a EXCEPT !.trajectory = Append(@, a.position)]]

\* the test of the separation loop with <= for <
separation_lost_Inclusive(a, b, d_) == RLe(norm(VSub(a.position, b.position)), d_)

\* the test of the separation loop of run_one_step
separation_lost(a, b, d_) == RLt(norm(VSub(a.position, b.position)), d_)

\* where the loop "for i" of run_one_step goes when its index becomes k
LoopPc(k) == IF k > N THEN "move" ELSE IF k + 1 > N THEN "heading" ELSE "scan"

\* entry of run_one_step: N = len(self.aircraft), done = True, i = 0
Enter ==
    /\ done' = TRUE
    /\ i' = 1
    /\ j' = 2
    /\ pc' = LoopPc(1)
    /\ pre' = [aircraft |-> aircraft, alerts |-> alerts,
               separation_losses |-> separation_losses,
               step |-> step, time |-> time]
    /\ scanned' = {}
    /\ assigned' = [k \in Agents |-> 0]
    /\ appended' = [k \in Agents |-> 0]
    /\ UNCHANGED <<aircraft, d, tau, time, step, alerts, separation_losses,
                   ret, conflict, initial>>

\* Simulation.run: "done = False; while not done: done = self.run_one_step()"
run ==
    /\ pc = "idle"
    /\ ~ret
    /\ step < MaxSteps
    /\ Enter

\* run_one_step called by a driver of its own, whatever the last call returned
call_run_one_step ==
    /\ pc = "idle"
    /\ step < MaxSteps
    /\ Enter

\* the pair (i, j) as the ghost variable scanned records it
Evaluation ==
    [i |-> i, j |-> j,
     self |-> <<aircraft[i].position, aircraft[i].heading>>,
     other |-> <<aircraft[j].position, aircraft[j].heading>>]

\* the turn of the loop "for j" with the new heading assigned inside it
ScanBody_HeadingInside(is_conflict, sp) ==
    /\ conflict' = is_conflict
    /\ alerts' = alerts + (IF is_conflict THEN 1 ELSE 0)
    /\ \E new_heading \in
            compute_heading([aircraft[i] EXCEPT !.semi_plan = @ \o sp[1]]) :
          aircraft' = [aircraft EXCEPT ![i].semi_plan = @ \o sp[1],
                                       ![i].heading = new_heading,
                                       ![j].semi_plan = @ \o sp[2]]
    /\ appended' = [appended EXCEPT ![i] = @ + Len(sp[1]),
                                    ![j] = @ + Len(sp[2])]
    /\ scanned' = scanned \cup {Evaluation}

\* the turn of the loop "for j" with alerts counting the pairs
ScanBody_CountsPairs(is_conflict, sp) ==
    /\ conflict' = is_conflict
    /\ alerts' = alerts + 1
    /\ aircraft' = [aircraft EXCEPT ![i].semi_plan = @ \o sp[1],
                                    ![j].semi_plan = @ \o sp[2]]
    /\ appended' = [appended EXCEPT ![i] = @ + Len(sp[1]),
                                    ![j] = @ + Len(sp[2])]
    /\ scanned' = scanned \cup {Evaluation}

\* self.alerts += int(conflict); semi_plan.extend(p_ij); semi_plan.extend(p_ji)
ScanBody(is_conflict, sp) ==
    /\ conflict' = is_conflict
    /\ alerts' = alerts + (IF is_conflict THEN 1 ELSE 0)
    /\ aircraft' = [aircraft EXCEPT ![i].semi_plan = @ \o sp[1],
                                    ![j].semi_plan = @ \o sp[2]]
    /\ appended' = [appended EXCEPT ![i] = @ + Len(sp[1]),
                                    ![j] = @ + Len(sp[2])]
    /\ scanned' = scanned \cup {Evaluation}

\* one turn of the loop "for j in range(i+1, N)"
ScanPair ==
    /\ pc = "scan"
    /\ ScanBody(detect_conflict(aircraft[i], aircraft[j], R(d), R(tau)).conflict,
                compute_semi_plan(aircraft[i], aircraft[j], R(d), R(tau)))
    /\ j' = j + 1
    /\ pc' = IF j + 1 > N THEN "heading" ELSE "scan"
    /\ UNCHANGED <<d, tau, time, step, separation_losses, i, done, ret,
                   pre, assigned, initial>>

\* the rest of the body of the loop "for i" without "semi_plan = []"
ComputeHeading_KeepsSemiPlan ==
    /\ pc = "heading"
    /\ \E new_heading \in compute_heading(aircraft[i]) :
          aircraft' = [aircraft EXCEPT ![i].heading = new_heading]
    /\ assigned' = [assigned EXCEPT ![i] = @ + 1]
    /\ done' = (done /\ reached_destination(aircraft[i], epsilon))
    /\ i' = i + 1
    /\ j' = i + 2
    /\ pc' = LoopPc(i + 1)
    /\ UNCHANGED <<d, tau, time, step, alerts, separation_losses, ret,
                   pre, scanned, appended, conflict, initial>>

\* the rest of the body of the loop "for i" with "done =" for "done *="
ComputeHeading_DoneOverwritten ==
    /\ pc = "heading"
    /\ \E new_heading \in compute_heading(aircraft[i]) :
          aircraft' = [aircraft EXCEPT ![i].heading = new_heading,
                                       ![i].semi_plan = <<>>]
    /\ assigned' = [assigned EXCEPT ![i] = @ + 1]
    /\ done' = reached_destination(aircraft[i], epsilon)
    /\ i' = i + 1
    /\ j' = i + 2
    /\ pc' = LoopPc(i + 1)
    /\ UNCHANGED <<d, tau, time, step, alerts, separation_losses, ret,
                   pre, scanned, appended, conflict, initial>>

\* the rest of the body of the loop "for i": new heading, semi_plan = [],
\* done *= reached_destination
ComputeHeading ==
    /\ pc = "heading"
    /\ \E new_heading \in compute_heading(aircraft[i]) :
          aircraft' = [aircraft EXCEPT ![i].heading = new_heading,
                                       ![i].semi_plan = <<>>]
    /\ assigned' = [assigned EXCEPT ![i] = @ + 1]
    /\ done' = (done /\ reached_destination(aircraft[i], epsilon))
    /\ i' = i + 1
    /\ j' = i + 2
    /\ pc' = LoopPc(i + 1)
    /\ UNCHANGED <<d, tau, time, step, alerts, separation_losses, ret,
                   pre, scanned, appended, conflict, initial>>

\* self.move(); self.step += 1; self.time += self.time_step
Move ==
    /\ pc = "move"
    /\ aircraft' = Simulation_move(aircraft)
    /\ step' = step + 1
    /\ time' = time + time_step
    /\ pc' = "metrics"
    /\ UNCHANGED <<d, tau, alerts, separation_losses, i, j, done, ret,
                   pre, scanned, assigned, appended, conflict, initial>>

\* the separation loop, and "return bool(done)"
Metrics ==
    /\ pc = "metrics"
    /\ separation_losses' = separation_losses +
          Cardinality({p \in Pairs :
                         separation_lost(aircraft[p[1]], aircraft[p[2]], R(d))})
    /\ ret' = done
    /\ pc' = "idle"
    /\ UNCHANGED <<aircraft, d, tau, time, step, alerts, i, j, done,
                   pre, scanned, assigned, appended, conflict, initial>>

----------------------------------------------------------------------------
(* The traffic of the model: aircraft on one line through the origin, along *)
(* the x axis or the y axis, each with its destination on that line.        *)

Axes == {<<1, 0>>, <<0, 1>>}

OnAxis(e, x) == Vec(e[1] * x, e[2] * x)

Speeds == {v \in (-MaxSpeed)..MaxSpeed : v # 0}

\* the farthest destination a lone aircraft reaches within MaxSteps steps
MaxDist == time_step * (MaxSteps - 1) + epsilon

Coords == {x \in 1..MaxCoord : x % 4 = 0}

\* an aircraft is planned as <<start, destination, initial speed>> along the line
Singles == {<< <<0, g, v>> >> : g \in 1..MaxDist, v \in Speeds}

Doubles ==
    {<< <<0, MaxCoord, s>>, <<x, g, v>> >> :
        s \in 1..MaxSpeed,
        x \in Coords, g \in {0, MaxCoord}, v \in Speeds}

Triples ==
    {<< <<0, MaxCoord, 1>>, <<x, 0, -s>>, <<MaxCoord, 0, -s>> >> :
        x \in Coords \ {MaxCoord}, s \in 1..MaxSpeed}

Fleets == {f \in Singles \cup Doubles \cup Triples :
             \A k \in 1..Len(f) : f[k][1] # f[k][2]}

Fleet(e, plans) ==
    [k \in 1..Len(plans) |->
        Aircraft(OnAxis(e, plans[k][1]), OnAxis(e, plans[k][3]),
                 OnAxis(e, plans[k][2]))]

\* Simulation.__init__
Init ==
    /\ \E e \in Axes : \E plans \in Fleets : aircraft = Fleet(e, plans)
    /\ d \in {MaxSep - 1, MaxSep}
    /\ tau = MaxTau
    /\ time = 0
    /\ step = 0
    /\ alerts = 0
    /\ separation_losses = 0
    /\ pc = "idle"
    /\ i = 1
    /\ j = 2
    /\ done = FALSE
    /\ ret = FALSE
    /\ pre = [aircraft |-> aircraft, alerts |-> 0, separation_losses |-> 0,
              step |-> 0, time |-> 0]
    /\ scanned = {}
    /\ assigned = [k \in 1..Len(aircraft) |-> 0]
    /\ appended = [k \in 1..Len(aircraft) |-> 0]
    /\ conflict = FALSE
    /\ initial = aircraft

Next ==
    \/ run
    \/ call_run_one_step
    \/ ScanPair
    \/ ComputeHeading
    \/ Move
    \/ Metrics

Spec == Init /\ [][Next]_vars

----------------------------------------------------------------------------
(* detect_conflict on its own: two aircraft in any orientation whose range  *)
(* is rational, one call of self.detect_conflict(other, d, tau).            *)

\* other.position - self.position: along an axis, or a Pythagorean triple
Offsets ==
    {o \in ((-2 * MaxSpeed)..(2 * MaxSpeed)) \X ((-2 * MaxSpeed)..(2 * MaxSpeed)) :
        o # <<0, 0>> /\ IsSquare(o[1] * o[1] + o[2] * o[2])}
      \cup {<<6, 8>>, <<-8, 6>>}

\* self.heading - other.heading
RelativeSpeeds ==
    ((-2 * MaxSpeed)..(2 * MaxSpeed)) \X ((-2 * MaxSpeed)..(2 * MaxSpeed))

InitDetect ==
    /\ \E o \in Offsets : \E v \in RelativeSpeeds :
       \E p \in {<<0, 0>>, <<2, -1>>} : \E h \in {<<0, 0>>, <<1, -1>>} :
          aircraft = <<Aircraft(Vec(p[1], p[2]),
                                Vec(h[1] + v[1], h[2] + v[2]),
                                Vec(p[1] + 2 * o[1], p[2] + 2 * o[2])),
                       Aircraft(Vec(p[1] + o[1], p[2] + o[2]),
                                Vec(h[1], h[2]),
                                Vec(p[1] - o[1], p[2] - o[2]))>>
    /\ d \in 1..MaxSep
    /\ tau \in 1..MaxTau
    /\ time = 0
    /\ step = 0
    /\ alerts = 0
    /\ separation_losses = 0
    /\ pc = "detect"
    /\ i = 1
    /\ j = 2
    /\ done = FALSE
    /\ ret = FALSE
    /\ pre = [aircraft |-> aircraft, alerts |-> 0, separation_losses |-> 0,
              step |-> 0, time |-> 0]
    /\ scanned = {}
    /\ assigned = [k \in 1..2 |-> 0]
    /\ appended = [k \in 1..2 |-> 0]
    /\ conflict = FALSE
    /\ initial = aircraft

\* conflict = self.aircraft[i].detect_conflict(self.aircraft[j], d, tau)[0]
Detect ==
    /\ pc = "detect"
    /\ conflict' = detect_conflict(aircraft[i], aircraft[j], R(d), R(tau)).conflict
    /\ pc' = "detected"
    /\ UNCHANGED <<aircraft, d, tau, time, step, alerts, separation_losses,
                   i, j, done, ret, pre, scanned, assigned, appended, initial>>

NextDetect == Detect

SpecDetect == InitDetect /\ [][NextDetect]_vars

----------------------------------------------------------------------------
(* Properties of detect_conflict *)

RelPos == VSub(aircraft[2].position, aircraft[1].position)

RelVel == VSub(aircraft[1].heading, aircraft[2].heading)

\* vr points straight from self to other
ClosingCourse == det(RelVel, RelPos) = R(0) /\ RGt(Dot(RelVel, RelPos), R(0))

\* vr points straight away from other
DivergingCourse == det(RelVel, RelPos) = R(0) /\ RLt(Dot(RelVel, RelPos), R(0))

\* on a closing course the separation |a_b - t.vr| shrinks until self passes
\* other: it falls below d within tau iff self passes other by then, or the
\* separation at tau is below d
LossWithinTau ==
    LET at_tau == VSub(RelPos, VScale(R(tau), RelVel))
    IN  \/ RLe(Dot(at_tau, RelPos), R(0))
        \/ RLt(normsq(at_tau), R(d * d))

\* C9: detect_conflict reports a conflict for every pair on a direct closing
\* course whose predicted separation falls below d within tau, and no
\* conflict for every pair on a straight diverging course at range >= d,
\* whatever the orientation of the pair in the plane.
C9_DetectClosingAndDiverging ==
    pc = "detected" =>
        /\ (ClosingCourse /\ LossWithinTau) => conflict
        /\ (DivergingCourse /\ RGe(normsq(RelPos), R(d * d))) => ~conflict

\* a closing pair off both axes that self passes beyond d within tau: the
\* disk of the first test misses vr and the second test decides
C9_Witness ==
    /\ pc = "detected"
    /\ ClosingCourse
    /\ LossWithinTau
    /\ RelPos[1] # R(0)
    /\ RelPos[2] # R(0)
    /\ ~is_inside_the_circle(RelVel, VDiv(RelPos, R(tau)), RDiv(R(d), R(tau)))
    /\ conflict

----------------------------------------------------------------------------
(* Properties of the step loop *)

InScan == pc \in {"scan", "heading"}

Returned == pc = "idle" /\ step > 0

AtStart(k) == pre.aircraft[k]

ConflictAtStart(a, b) ==
    detect_conflict(AtStart(a), AtStart(b), R(d), R(tau)).conflict

WithinTolerance(position, destination) ==
    RLe(normsq(VSub(destination, position)), R(epsilon * epsilon))

\* C1: every pair that run_one_step evaluates is evaluated on the positions
\* and headings its two aircraft had when the step started.
C1_PairsReadStepStart ==
    \A s \in scanned :
        /\ s.self = <<AtStart(s.i).position, AtStart(s.i).heading>>
        /\ s.other = <<AtStart(s.j).position, AtStart(s.j).heading>>

\* a pair was evaluated after an earlier aircraft had changed its heading
C1_Witness ==
    \E s \in scanned :
        /\ s.i > 1
        /\ aircraft[1].heading # AtStart(1).heading
        /\ ConflictAtStart(s.i, s.j)

\* the constraints aircraft k must hold when its heading is computed: one
\* for each conflicting pair (m, k), m < k, then one for each conflicting
\* pair (k, m), m > k, all computed on the state at the start of the step
RECURSIVE ExpectedPlan(_, _)
ExpectedPlan(k, m) ==
    IF m = 0 THEN <<>>
    ELSE ExpectedPlan(k, m - 1) \o
         (IF m < k
          THEN compute_semi_plan(AtStart(m), AtStart(k), R(d), R(tau))[2]
          ELSE IF m > k
          THEN compute_semi_plan(AtStart(k), AtStart(m), R(d), R(tau))[1]
          ELSE <<>>)

\* C2: when compute_heading is called for aircraft i its constraint set is
\* exactly the constraints of the conflicting pairs of this step that have i
\* as a member; a set that was cleared stays empty for the rest of the step,
\* and every set is empty when run_one_step returns.
C2_ConstraintSetAtResolution ==
    /\ pc = "heading" => aircraft[i].semi_plan = ExpectedPlan(i, N)
    /\ InScan => \A k \in 1..(i - 1) : aircraft[k].semi_plan = <<>>
    /\ pc \in {"move", "metrics", "idle"} =>
          \A k \in Agents : aircraft[k].semi_plan = <<>>

\* the middle aircraft of three is resolved with a constraint from the pair
\* before it and another from the pair after it
C2_Witness ==
    /\ pc = "heading"
    /\ N = 3
    /\ i = 2
    /\ Len(aircraft[2].semi_plan) = 2
    /\ aircraft[2].semi_plan[1] # aircraft[2].semi_plan[2]
    /\ aircraft[1].semi_plan = <<>>

\* C3 as claimed: run_one_step returns true iff every aircraft is within
\* tolerance of its destination on the positions after this step's motion.
C3_DoneOnPositionsAfterMotion ==
    Returned =>
        (ret <=> \A k \in Agents :
                    WithinTolerance(aircraft[k].position, aircraft[k].destination))

\* C3 amended: run_one_step returns true iff every aircraft was within
\* tolerance of its destination on the positions at the start of the step,
\* before the motion; the step whose motion brings the last aircraft within
\* tolerance returns false.
C3_DoneOnPositionsAtStepStart ==
    Returned =>
        (ret <=> \A k \in Agents :
                    WithinTolerance(AtStart(k).position, AtStart(k).destination))

\* a step moved the last aircraft within tolerance and returned false
C3_Witness ==
    /\ Returned
    /\ ~ret
    /\ \A k \in Agents :
          WithinTolerance(aircraft[k].position, aircraft[k].destination)
    /\ \E k \in Agents : aircraft[k].position # AtStart(k).position

----------------------------------------------------------------------------
(* A single aircraft *)

\* the least integer >= x
Ceiling(x) == -((-x.n) \div x.d)

InitialRange == norm(VSub(initial[1].destination, initial[1].position))

InitialSpeed == norm(initial[1].heading)

\* the steps the claim gives: ceil(|destination - position| / (time_step * |heading|))
ClaimedSteps == Ceiling(RDiv(InitialRange, RMul(R(time_step), InitialSpeed)))

\* the steps of the code: the range shrinks by time_step a step, the speed
\* being 1 from the first motion on, until it is <= epsilon
StepsToArrive ==
    IF RLe(InitialRange, R(epsilon)) THEN 0
    ELSE Ceiling(RDiv(RSub(InitialRange, R(epsilon)), R(time_step)))

\* point lies on the segment from the start to the destination
OnSegment(point) ==
    LET leg == VSub(initial[1].destination, initial[1].position)
        off == VSub(point, initial[1].position)
    IN  /\ det(off, leg) = R(0)
        /\ RGe(Dot(off, leg), R(0))
        /\ RLe(Dot(off, leg), normsq(leg))

StraightAndQuiet ==
    /\ alerts = 0
    /\ \A m \in 1..Len(aircraft[1].trajectory) : OnSegment(aircraft[1].trajectory[m])

\* C4 as claimed, for an aircraft that starts out of tolerance: a single
\* aircraft flies a straight line with alerts = 0 and is first within
\* distance 3 of its destination after exactly
\* ceil(|destination - position| / (time_step * |heading|)) steps.
C4_ArrivalAfterClaimedSteps ==
    (N = 1 /\ RGt(InitialRange, R(epsilon))) =>
        /\ StraightAndQuiet
        /\ \A m \in 1..Len(aircraft[1].trajectory) :
              WithinTolerance(aircraft[1].trajectory[m], aircraft[1].destination)
                <=> m - 1 >= ClaimedSteps

\* C4 amended: a single aircraft flies a straight line with alerts = 0 and is
\* first within distance 3 of its destination after exactly
\* max(0, ceil((|destination - position| - 3) / time_step)) steps, whatever
\* its initial speed; run_one_step first returns true one step later, which
\* ends run().
C4_ArrivalAfterStepsToArrive ==
    N = 1 =>
        /\ StraightAndQuiet
        /\ \A m \in 1..Len(aircraft[1].trajectory) :
              WithinTolerance(aircraft[1].trajectory[m], aircraft[1].destination)
                <=> m - 1 >= StepsToArrive
        /\ Returned => (ret <=> step >= StepsToArrive + 1)
        /\ (pc = "idle" /\ ~ret) => step <= StepsToArrive

\* a single aircraft of initial speed 2 has arrived and run() has ended
C4_Witness ==
    /\ N = 1
    /\ InitialSpeed = R(2)
    /\ StepsToArrive >= 2
    /\ Returned
    /\ ret
    /\ step = StepsToArrive + 1

----------------------------------------------------------------------------
(* The constraints *)

\* -(coef . (heading + coef/2))
MirroredThreshold(coef, heading) ==
    RNeg(Dot(coef, VAdd(heading, VDiv(coef, R(2)))))

\* the constraints of an aircraft that has only been the "other" of its
\* pairs so far in this step: every aircraft after the one being scanned
OthersOnly == IF InScan THEN (i + 1)..N ELSE {}

\* C5 as claimed: the constraint of other is (-c, (-c) . (other.heading - c/2)):
\* with coef = -c its threshold is coef . (other.heading + coef/2).
C5_OtherThresholdIsOwnDotProduct ==
    \A k \in OthersOnly :
        \A m \in 1..Len(aircraft[k].semi_plan) :
            LET p == aircraft[k].semi_plan[m]
            IN  p[2] = Dot(p[1], VAdd(aircraft[k].heading, VDiv(p[1], R(2))))

\* C5 amended: self gets (c, c . (-(self.heading + c/2))) and other gets
\* (-c, c . (other.heading - c/2)); the threshold of other is the negated dot
\* product of its coefficient vector -c with (other.heading - c/2), so every
\* stored constraint (coef, threshold) of an aircraft of heading h has
\* threshold = -(coef . (h + coef/2)).
C5_ThresholdIsMirrored ==
    \A k \in Agents :
        \A m \in 1..Len(aircraft[k].semi_plan) :
            LET p == aircraft[k].semi_plan[m]
            IN  p[2] = MirroredThreshold(p[1], AtStart(k).heading)

\* an aircraft holds a constraint it got as other, with a threshold that is
\* a number other than 0
C5_Witness ==
    \E k \in OthersOnly :
        \E m \in 1..Len(aircraft[k].semi_plan) :
            /\ ~IsNaN(aircraft[k].semi_plan[m][2])
            /\ aircraft[k].semi_plan[m][2] # R(0)

----------------------------------------------------------------------------
(* Motion and counters *)

MotionDone == pc = "metrics" \/ Returned

\* C6: in a step an aircraft within tolerance of its destination at the start
\* of the step keeps its position and every other aircraft moves by time_step
\* times the heading it was given in this step; either way the position
\* after the step is appended to the trajectory, earlier entries are kept,
\* and the trajectory has step + 1 entries; aircraft that were all within
\* tolerance at the start of the step make the step return true.
C6_MotionAndTrajectory ==
    /\ \A k \in Agents : Len(aircraft[k].trajectory) = step + 1
    /\ MotionDone =>
          \A k \in Agents :
              /\ aircraft[k].position =
                    IF WithinTolerance(AtStart(k).position, AtStart(k).destination)
                    THEN AtStart(k).position
                    ELSE VAdd(AtStart(k).position,
                              VScale(R(time_step), aircraft[k].heading))
              /\ aircraft[k].trajectory =
                    Append(AtStart(k).trajectory, aircraft[k].position)
    /\ (Returned /\ \A k \in Agents :
                       WithinTolerance(AtStart(k).position, AtStart(k).destination))
          => ret

\* a step in which one aircraft stayed on its destination area under a new
\* heading while another one moved
C6_Witness ==
    /\ Returned
    /\ \E k \in Agents :
          /\ WithinTolerance(AtStart(k).position, AtStart(k).destination)
          /\ aircraft[k].heading # AtStart(k).heading
          /\ ~VIsNaN(aircraft[k].heading)
    /\ \E k \in Agents : aircraft[k].position # AtStart(k).position

ScannedConflicts == {s \in scanned : ConflictAtStart(s.i, s.j)}

\* C7: in a step alerts grows by the number of pairs in conflict on the
\* state at the start of the step, each such pair appends one constraint to
\* each of its two aircraft and no other pair appends any, and the step
\* evaluates every pair.
C7_AlertsAndConstraintsPerConflict ==
    LET conflicts == ScannedConflicts
        evaluated == {<<s.i, s.j>> : s \in scanned}
    IN  /\ alerts = pre.alerts + Cardinality(conflicts)
        /\ \A k \in Agents :
              appended[k] = Cardinality({s \in conflicts : s.i = k \/ s.j = k})
        /\ Cardinality(scanned) = Cardinality(evaluated)
        /\ pc \in {"move", "metrics"} \/ Returned => evaluated = Pairs

\* a step of three aircraft with a pair in conflict and a pair not in conflict
C7_Witness ==
    /\ Returned
    /\ N = 3
    /\ \E p \in Pairs : ConflictAtStart(p[1], p[2])
    /\ \E p \in Pairs : ~ConflictAtStart(p[1], p[2])
    /\ alerts > pre.alerts

SeparationLossesNow ==
    {p \in Pairs :
        RLt(normsq(VSub(aircraft[p[1]].position, aircraft[p[2]].position)),
            R(d * d))}

\* C8: a step adds to separation_losses the number of pairs closer than d
\* after the motion, a pair at distance d not being counted, adds 1 to step
\* and time_step to time; step, time, alerts and separation_losses never
\* decrease.
C8_SeparationLossesAndClock ==
    /\ [](Returned =>
            /\ separation_losses =
                  pre.separation_losses + Cardinality(SeparationLossesNow)
            /\ step = pre.step + 1
            /\ time = pre.time + time_step)
    /\ [][/\ step' >= step
          /\ time' >= time
          /\ alerts' >= alerts
          /\ separation_losses' >= separation_losses]_vars

\* after a step one pair is at distance d exactly and another is closer
C8_Witness ==
    /\ Returned
    /\ \E p \in Pairs :
          normsq(VSub(aircraft[p[1]].position, aircraft[p[2]].position)) = R(d * d)
    /\ SeparationLossesNow # {}
    /\ separation_losses = pre.separation_losses + Cardinality(SeparationLossesNow)

\* C10: an aircraft within tolerance of its destination never changes its
\* position again; it is still evaluated in every pair it belongs to and
\* still gets its heading assigned once in every step; once run_one_step
\* has returned true it returns true on every later call.
C10_ArrivalIsStable ==
    /\ [][\A k \in Agents :
            WithinTolerance(aircraft[k].position, aircraft[k].destination)
              => aircraft'[k].position = aircraft[k].position]_vars
    /\ [][ret => ret']_vars
    /\ [](Returned =>
            /\ \A k \in Agents : assigned[k] = 1
            /\ {<<s.i, s.j>> : s \in scanned} = Pairs)

\* an aircraft that had arrived was found in conflict and given another
\* heading in a later step, and stayed where it was
C10_Witness ==
    /\ Returned
    /\ step >= 2
    /\ \E k \in Agents :
          /\ WithinTolerance(AtStart(k).position, AtStart(k).destination)
          /\ \E s \in ScannedConflicts : s.i = k \/ s.j = k
          /\ aircraft[k].heading # AtStart(k).heading
          /\ aircraft[k].position = AtStart(k).position
          /\ aircraft[k].trajectory[step] = aircraft[k].position
    /\ ~ret

====
